---- MODULE Spec2Model ----
(***************************************************************************)
(* A model of src/renderer/geometry/particles.rs: ParticleData::validate,  *)
(* Particles::new / update / set_transformation, the vertex shader         *)
(* composition and Geometry::render_with_material.                         *)
(*                                                                         *)
(* A Vec is modelled as a sequence; the element values never influence     *)
(* control flow in this file, so every element is the one value Elem.      *)
(* A HashMap<String, _> is a function whose DOMAIN is its key set.         *)
(***************************************************************************)
EXTENDS Integers, Sequences, FiniteSets, TLC

\* ---------------------------------------------------------------- bounds
\* Longest buffer of a ParticleData handed to validate().
MaxLen == 3
\* Largest particle count handed to new()/update().
MaxInstances == 1
\* Largest number of attributes a compiled program declares.
MaxRequired == 2
\* Vertex count of the base mesh's position buffer.
MeshVertices == 3
\* Element count of the base mesh's index buffer, when it has one.
MeshIndices == 6

\* ------------------------------------------------------------ vocabulary
\* Option<T>: NoneOf is None and Some(x) is Some(x). NoName stands for "no
\* name" where a name is a string.
NoneOf == << >>
Some(x) == <<x>>
IsSome(o) == o # NoneOf
Unwrap(o) == o[1]
NoName == "-"
Elem == "e"

SeqsUpTo(n) == UNION {[1..k -> {Elem}] : k \in 0..n}
OptSeqsUpTo(n) == {NoneOf} \cup {Some(b) : b \in SeqsUpTo(n)}

\* struct ParticleData
ParticleDataOf(p, v, t, c) ==
    [start_positions |-> p, start_velocities |-> v, texture_transforms |-> t, colors |-> c]

\* Every ParticleData whose buffers hold at most n elements.
ParticleDatas(n) ==
    {ParticleDataOf(p, v, t, c) :
        p \in SeqsUpTo(n), v \in SeqsUpTo(n), t \in OptSeqsUpTo(n), c \in OptSeqsUpTo(n)}

\* Option<Vec<_>>::as_ref().map(|b| b.len())
OptLen(b) == IF IsSome(b) THEN Some(Len(Unwrap(b))) ELSE NoneOf

\* ------------------------------------------------------- ParticleData
count_of_velocities(data) == Len(data.start_velocities)
\* ParticleData::count: start_positions.len() as u32. The cast truncates only
\* from 2^32 elements on, far above every bound here (and above what TLC's
\* integers hold), so it is the identity in this model.
count(data) == Len(data.start_positions)

Ok == [ok |-> TRUE]
InvalidBufferLength(name, expected, actual) ==
    [ok |-> FALSE, error |-> "InvalidBufferLength", name |-> name,
     expected |-> expected, actual |-> actual]

\* The closure buffer_check of validate(): a present length below the instance
\* count is an error, anything else passes.
buffer_check_wrong_fields(length, name, instance_count) ==
    IF IsSome(length) /\ Unwrap(length) < instance_count
    THEN InvalidBufferLength(name, Unwrap(length), instance_count)
    ELSE Ok
buffer_check(length, name, instance_count) ==
    IF IsSome(length) /\ Unwrap(length) < instance_count
    THEN InvalidBufferLength(name, instance_count, Unwrap(length))
    ELSE Ok

\* The four checks of validate(), in the order the code makes them.
ValidateChecks(data) ==
    << <<OptLen(data.texture_transforms), "texture transforms">>,
       <<OptLen(data.colors), "colors">>,
       <<Some(Len(data.start_positions)), "start_positions">>,
       <<Some(Len(data.start_velocities)), "start_velocities">> >>

\* `?` after each check: the first error is returned.
RECURSIVE FirstError(_, _, _)
FirstError(checks, i, instance_count) ==
    IF i > Len(checks) THEN Ok
    ELSE LET r == buffer_check(checks[i][1], checks[i][2], instance_count)
         IN  IF r.ok THEN FirstError(checks, i + 1, instance_count) ELSE r

\* ParticleData::validate
validate(data) == FirstError(ValidateChecks(data), 1, count(data))

\* ------------------------------------------------------------- state
VARIABLES
    vdata,            \* the ParticleData validate() is applied to (SpecValidate)
    vresult,          \* Some(what validate() returned for it), NoneOf before the call
    debug_assertions, \* cfg(debug_assertions) of the build
    vertex_buffers,   \* Particles.vertex_buffers: name -> vertex count
    index_buffer,     \* Particles.index_buffer: an Option of its element count
    instance_buffers, \* Particles.instance_buffers: name -> contents
    instance_count,   \* Particles.instance_count
    transformation,   \* Particles.transformation: "invertible" or "singular"
    pc,               \* where the running call stands: "idle" between calls,
                      \* "returned"/"panicked" when one has just ended
    arg,              \* Some(the ParticleData of the running update() call)
    snapshot,         \* history: Some(the data of the last update() that returned)
    colors_before,    \* history: whether the update() that returned before it had colors
    last              \* history: the running or just ended call, NoCall between calls

vars == <<vdata, vresult, debug_assertions, vertex_buffers, index_buffer,
          instance_buffers, instance_count, transformation, pc, arg, snapshot, colors_before, last>>

NoCall == [op |-> "none", result |-> "none"]

\* ------------------------------------------------------------ HashMap
EmptyMap == << >>

\* HashMap::insert
insert(m, k, v) == [x \in (DOMAIN m) \cup {k} |-> IF x = k THEN v ELSE m[x]]

\* HashMap::clear
clear_keeps_entries(m) == m
clear(m) == EmptyMap

\* HashMap::contains_key
contains_key(m, k) == k \in DOMAIN m

\* ------------------------------------------------------ base geometry
\* The optional channels a CpuMesh may carry besides its positions.
OptionalChannels == {"normal", "tangent", "color", "uv_coordinates"}

\* super::vertex_buffers_from_mesh: the position buffer and one buffer per
\* channel the mesh provides, all of the mesh's vertex count.
vertex_buffers_from_mesh(channels) == [k \in {"position"} \cup channels |-> MeshVertices]

\* super::index_buffer_from_mesh: an element buffer if the mesh is indexed.
index_buffer_from_mesh(indexed) == IF indexed THEN Some(MeshIndices) ELSE NoneOf

\* ------------------------------------------------------ Particles::new
\* The struct literal of new(); the update(data) that new() then runs is the
\* update of the actions below, started in pc = "validate".
NewStruct(channels, indexed, data, debug) ==
    /\ debug_assertions = debug
    /\ vertex_buffers = vertex_buffers_from_mesh(channels)
    /\ index_buffer = index_buffer_from_mesh(indexed)
    /\ instance_buffers = EmptyMap
    /\ instance_count = 0
    /\ transformation = "invertible"
    /\ pc = "validate"
    /\ arg = Some(data)
    /\ snapshot = NoneOf
    /\ colors_before = FALSE
    /\ last = [op |-> "new", result |-> "running"]

\* --------------------------------------------------- Particles::update
\* The two row buffers update() derives from the texture transforms: one
\* vec3 pushed to each per transform.
instance_tex_transform1(texture_transforms) ==
    [i \in 1..Len(texture_transforms) |-> Elem]
instance_tex_transform2(texture_transforms) ==
    [i \in 1..Len(texture_transforms) |-> Elem]

\* A caller invokes update(data) on a Particles that exists.
UpdateBegin(data) ==
    /\ pc = "idle"
    /\ arg' = Some(data)
    /\ pc' = "validate"
    /\ last' = [op |-> "update", result |-> "running"]
    /\ UNCHANGED <<vdata, vresult, debug_assertions, vertex_buffers, index_buffer,
                   instance_buffers, instance_count, transformation, snapshot, colors_before>>

\* #[cfg(debug_assertions)] data.validate().expect("invalid particle data"):
\* in a debug build invalid data panics before anything is written; a panic
\* inside new() leaves no Particles at all.
UpdateValidate ==
    /\ pc = "validate"
    /\ IF debug_assertions /\ ~validate(Unwrap(arg)).ok
       THEN /\ pc' = IF last.op = "new" THEN "unwound" ELSE "panicked"
            /\ last' = [op |-> last.op, result |-> "panicked"]
            /\ arg' = NoneOf
       ELSE /\ pc' = "count"
            /\ UNCHANGED <<last, arg>>
    /\ UNCHANGED <<vdata, vresult, debug_assertions, vertex_buffers, index_buffer,
                   instance_buffers, instance_count, transformation, snapshot, colors_before>>

\* self.instance_count = data.count();
UpdateCount ==
    /\ pc = "count"
    /\ instance_count' = count(Unwrap(arg))
    /\ pc' = "clear"
    /\ UNCHANGED <<vdata, vresult, debug_assertions, vertex_buffers, index_buffer,
                   instance_buffers, transformation, arg, snapshot, colors_before, last>>

\* self.instance_buffers.clear();
UpdateClear ==
    /\ pc = "clear"
    /\ instance_buffers' = clear(instance_buffers)
    /\ pc' = "start_position"
    /\ UNCHANGED <<vdata, vresult, debug_assertions, vertex_buffers, index_buffer,
                   instance_count, transformation, arg, snapshot, colors_before, last>>

\* insert("start_position", InstanceBuffer::new_with_data(.., &data.start_positions))
UpdateStartPosition ==
    /\ pc = "start_position"
    /\ instance_buffers' = insert(instance_buffers, "start_position", Unwrap(arg).start_positions)
    /\ pc' = "start_velocity"
    /\ UNCHANGED <<vdata, vresult, debug_assertions, vertex_buffers, index_buffer,
                   instance_count, transformation, arg, snapshot, colors_before, last>>

\* insert("start_velocity", InstanceBuffer::new_with_data(.., &data.start_velocities))
UpdateStartVelocity ==
    /\ pc = "start_velocity"
    /\ instance_buffers' = insert(instance_buffers, "start_velocity", Unwrap(arg).start_velocities)
    /\ pc' = "texture_transforms"
    /\ UNCHANGED <<vdata, vresult, debug_assertions, vertex_buffers, index_buffer,
                   instance_count, transformation, arg, snapshot, colors_before, last>>

\* if let Some(texture_transforms) = &data.texture_transforms { two inserts }
with_texture_transforms_row1_only(buffers, data) ==
    IF IsSome(data.texture_transforms)
    THEN insert(buffers, "tex_transform_row1",
                instance_tex_transform1(Unwrap(data.texture_transforms)))
    ELSE buffers
with_texture_transforms(buffers, data) ==
    IF IsSome(data.texture_transforms)
    THEN insert(insert(buffers, "tex_transform_row1",
                       instance_tex_transform1(Unwrap(data.texture_transforms))),
                "tex_transform_row2", instance_tex_transform2(Unwrap(data.texture_transforms)))
    ELSE buffers

UpdateTextureTransforms ==
    /\ pc = "texture_transforms"
    /\ instance_buffers' = with_texture_transforms(instance_buffers, Unwrap(arg))
    /\ pc' = "colors"
    /\ UNCHANGED <<vdata, vresult, debug_assertions, vertex_buffers, index_buffer,
                   instance_count, transformation, arg, snapshot, colors_before, last>>

\* if let Some(instance_colors) = &data.colors { insert("instance_color", ..) }
with_colors(buffers, data) ==
    IF IsSome(data.colors)
    THEN insert(buffers, "instance_color", Unwrap(data.colors))
    ELSE buffers

\* The last statement of update(): the call returns.
UpdateColors ==
    /\ pc = "colors"
    /\ instance_buffers' = with_colors(instance_buffers, Unwrap(arg))
    /\ pc' = "returned"
    /\ snapshot' = arg
    /\ colors_before' = (IsSome(snapshot) /\ IsSome(Unwrap(snapshot).colors))
    /\ arg' = NoneOf
    /\ last' = [op |-> last.op, result |-> "returned"]
    /\ UNCHANGED <<vdata, vresult, debug_assertions, vertex_buffers, index_buffer,
                   instance_count, transformation>>

UpdateSteps ==
    \/ UpdateValidate
    \/ UpdateCount
    \/ UpdateClear
    \/ UpdateStartPosition
    \/ UpdateStartVelocity
    \/ UpdateTextureTransforms
    \/ UpdateColors

\* Particles::set_transformation
SetTransformation ==
    /\ pc = "idle"
    /\ \E t \in {"invertible", "singular"} : transformation' = t
    /\ UNCHANGED <<vdata, vresult, debug_assertions, vertex_buffers, index_buffer,
                   instance_buffers, instance_count, pc, arg, snapshot, colors_before,
                   last>>

\* The caller goes on after a call that returned, or that panicked and was
\* caught while unwinding: what the call did on its program is gone, the
\* Particles is as the call left it.
Return ==
    /\ pc \in {"returned", "panicked"}
    /\ pc' = "idle"
    /\ last' = NoCall
    /\ UNCHANGED <<vdata, vresult, debug_assertions, vertex_buffers, index_buffer,
                   instance_buffers, instance_count, transformation, arg, snapshot,
                   colors_before>>

\* --------------------------------------------- vertex shader composition
\* The declarations vertex_shader_source() and its caller look for in the
\* fragment shader source. A fragment shader source is modelled as the set of
\* these declarations it contains, which is all that str::find(..).is_some()
\* reads of it.
Signals == {"in vec3 pos;", "in vec3 nor;", "in vec3 tang;", "in vec3 bitang;",
            "in vec2 uvs;", "in vec4 col;"}
FragmentSources == SUBSET Signals

\* fragment_shader_source.find(s).is_some()
find(fragment_shader_source, s) == s \in fragment_shader_source

\* The `if use_colors {..} else {""}` argument of the format! call.
color_defines_instance_first(use_colors, vbuffers, ibuffers) ==
    IF use_colors
    THEN IF contains_key(ibuffers, "instance_color")
         THEN <<"USE_COLORS", "USE_INSTANCE_COLORS">>
         ELSE <<"USE_COLORS", "USE_VERTEX_COLORS">>
    ELSE << >>
color_defines(use_colors, vbuffers, ibuffers) ==
    IF use_colors
    THEN IF contains_key(ibuffers, "instance_color") /\ contains_key(vbuffers, "color")
         THEN <<"USE_COLORS", "USE_VERTEX_COLORS", "USE_INSTANCE_COLORS">>
         ELSE IF contains_key(ibuffers, "instance_color")
              THEN <<"USE_COLORS", "USE_INSTANCE_COLORS">>
              ELSE <<"USE_COLORS", "USE_VERTEX_COLORS">>
    ELSE << >>

\* The `if use_tangents {..} else {""}` argument: it panics when the bitangent
\* declaration is missing. [panic |-> TRUE] stands for the panic.
tangent_defines_unchecked(fragment_shader_source) ==
    IF find(fragment_shader_source, "in vec3 tang;")
    THEN [panic |-> FALSE, defines |-> <<"USE_TANGENTS">>]
    ELSE [panic |-> FALSE, defines |-> << >>]
tangent_defines(fragment_shader_source) ==
    IF find(fragment_shader_source, "in vec3 tang;")
    THEN IF ~find(fragment_shader_source, "in vec3 bitang;")
         THEN [panic |-> TRUE]
         ELSE [panic |-> FALSE, defines |-> <<"USE_TANGENTS">>]
    ELSE [panic |-> FALSE, defines |-> << >>]

\* The `if contains_key("tex_transform_row1") {..}` argument.
texture_transformation_defines_wrong_key(fragment_shader_source, ibuffers) ==
    IF contains_key(ibuffers, "tex_transform_row")
    THEN <<"USE_INSTANCE_TEXTURE_TRANSFORMATION">>
    ELSE << >>
texture_transformation_defines(fragment_shader_source, ibuffers) ==
    IF contains_key(ibuffers, "tex_transform_row1")
    THEN <<"USE_INSTANCE_TEXTURE_TRANSFORMATION">>
    ELSE << >>

\* Particles::vertex_shader_source: the #define lines of the composed source, in
\* the order format! writes them (the two include_str! blocks that follow them
\* are fixed text). The arguments are evaluated in order, so the tangent panic
\* leaves no source at all.
vertex_shader_source(fragment_shader_source, vbuffers, ibuffers) ==
    LET use_positions == find(fragment_shader_source, "in vec3 pos;")
        use_normals == find(fragment_shader_source, "in vec3 nor;")
        use_uvs == find(fragment_shader_source, "in vec2 uvs;")
        use_colors == find(fragment_shader_source, "in vec4 col;")
        tangents == tangent_defines(fragment_shader_source)
    IN  IF tangents.panic
        THEN [panic |-> TRUE]
        ELSE [panic |-> FALSE,
              defines |->
                  <<"PARTICLES">>
                  \o (IF use_positions THEN <<"USE_POSITIONS">> ELSE << >>)
                  \o (IF use_normals THEN <<"USE_NORMALS">> ELSE << >>)
                  \o tangents.defines
                  \o (IF use_uvs THEN <<"USE_UVS">> ELSE << >>)
                  \o color_defines(use_colors, vbuffers, ibuffers)
                  \o texture_transformation_defines(fragment_shader_source, ibuffers)]

\* ------------------------------------------------- render_with_material
\* The attribute names of the two binding loops, in loop order.
VertexAttributes == <<"position", "normal", "tangent", "color", "uv_coordinates">>
InstanceAttributes == <<"start_position", "start_velocity", "tex_transform_row1",
                        "tex_transform_row2", "instance_color">>
\* The uniforms bound with use_uniform_if_required.
OptionalUniforms == <<"textureTransform", "normalMatrix">>
\* The uniforms bound with use_uniform, after material.use_uniforms ("material").
Uniforms == {"material", "viewProjection", "modelMatrix", "acceleration", "time"}

Range(f) == {f[i] : i \in DOMAIN f}

\* What a compiled program can declare of the names this file asks it about
\* (Program::requires_attribute, and the test inside use_uniform_if_required).
ProgramNames == Range(VertexAttributes) \cup Range(InstanceAttributes) \cup Range(OptionalUniforms)
ProgramDeclarations == {d \in SUBSET ProgramNames : Cardinality(d) <= MaxRequired}

\* One `for attribute_name in [..]` loop from index i on: a required attribute
\* is bound from its buffer, and a required attribute without a buffer panics
\* (Option::expect) with a message naming it.
RECURSIVE bind_attributes_skipping_missing(_, _, _, _, _)
bind_attributes_skipping_missing(names, i, declared, buffers, bound) ==
    IF i > Len(names) THEN [bound |-> bound, missing |-> NoName]
    ELSE IF names[i] \in declared /\ contains_key(buffers, names[i])
         THEN bind_attributes_skipping_missing(names, i + 1, declared, buffers,
                                               bound \cup {names[i]})
         ELSE bind_attributes_skipping_missing(names, i + 1, declared, buffers, bound)
RECURSIVE bind_attributes(_, _, _, _, _)
bind_attributes(names, i, declared, buffers, bound) ==
    IF i > Len(names) THEN [bound |-> bound, missing |-> NoName]
    ELSE IF names[i] \in declared
         THEN IF contains_key(buffers, names[i])
              THEN bind_attributes(names, i + 1, declared, buffers, bound \cup {names[i]})
              ELSE [bound |-> bound, missing |-> names[i]]
         ELSE bind_attributes(names, i + 1, declared, buffers, bound)

\* The draw call at the end of the callback.
draw_call_vertex_count_as_instances(ibuffer, vbuffers, instances) ==
    IF IsSome(ibuffer)
    THEN [call |-> "draw_elements_instanced", count |-> Unwrap(ibuffer),
          instances |-> instances]
    ELSE IF contains_key(vbuffers, "position")
         THEN [call |-> "draw_arrays_instanced", count |-> instances,
               instances |-> vbuffers["position"]]
         ELSE [call |-> "panic", count |-> 0, instances |-> 0]
draw_call(ibuffer, vbuffers, instances) ==
    IF IsSome(ibuffer)
    THEN [call |-> "draw_elements_instanced", count |-> Unwrap(ibuffer),
          instances |-> instances]
    ELSE IF contains_key(vbuffers, "position")
         THEN [call |-> "draw_arrays_instanced", count |-> vbuffers["position"],
               instances |-> instances]
         ELSE [call |-> "panic", count |-> 0, instances |-> 0]

\* What one render_with_material call has done when it returns or panics.
RenderRecord(frag, vs, program, declared, uniforms, vattrs, iattrs, draws, result, panic, name) ==
    [op |-> "render", result |-> result, panic |-> panic, name |-> name,
     fragment_shader_source |-> frag, vertex_shader_source |-> vs,
     program |-> program, declared |-> declared, uniforms |-> uniforms,
     vertex_attributes |-> vattrs, instance_attributes |-> iattrs, draws |-> draws]

\* The closure handed to Context::program, run on a compiled program.
render_callback(frag, vs, declared) ==
    LET optional == {u \in {"textureTransform"} : u \in declared}
        normal == {u \in {"normalMatrix"} : u \in declared}
        v == bind_attributes(VertexAttributes, 1, declared, vertex_buffers, {})
        n == bind_attributes(InstanceAttributes, 1, declared, instance_buffers, {})
        d == draw_call(index_buffer, vertex_buffers, instance_count)
    IN  IF transformation = "singular"
        THEN \* self.transformation.invert().unwrap() panics while the argument
             \* of the normalMatrix call is evaluated
             RenderRecord(frag, Some(vs), "compiled", declared, Uniforms \cup optional,
                          {}, {}, << >>, "panicked", "unwrap", NoName)
        ELSE IF v.missing # NoName
        THEN RenderRecord(frag, Some(vs), "compiled", declared, Uniforms \cup optional \cup normal,
                          v.bound, {}, << >>, "panicked", "missing vertex buffer", v.missing)
        ELSE IF n.missing # NoName
        THEN RenderRecord(frag, Some(vs), "compiled", declared, Uniforms \cup optional \cup normal,
                          v.bound, n.bound, << >>, "panicked", "missing instance buffer",
                          n.missing)
        ELSE IF d.call = "panic"
        THEN RenderRecord(frag, Some(vs), "compiled", declared, Uniforms \cup optional \cup normal,
                          v.bound, n.bound, << >>, "panicked", "unwrap", NoName)
        ELSE RenderRecord(frag, Some(vs), "compiled", declared, Uniforms \cup optional \cup normal,
                          v.bound, n.bound, <<d>>, "returned", NoName, NoName)

\* Geometry::render_with_material for a material that produces the fragment
\* source frag, a context whose compilation of the source pair succeeds or not,
\* and, when it does, a program that declares the names in declared.
render_with_material(frag, compiles, declared) ==
    LET vs == vertex_shader_source(frag, vertex_buffers, instance_buffers)
    IN  IF vs.panic
        THEN RenderRecord(frag, NoneOf, "not requested", {}, {}, {}, {}, << >>,
                          "panicked", "tangent without bitangent", NoName)
        ELSE IF ~compiles
        THEN RenderRecord(frag, Some(vs.defines), "failed", {}, {}, {}, {}, << >>,
                          "panicked", "Failed compiling shader", NoName)
        ELSE render_callback(frag, vs.defines, declared)

\* A caller invokes render_with_material on a Particles that exists, with a
\* material whose fragment source is frag; the context fails to compile the
\* source pair (compiles = FALSE) or hands the callback a program that declares
\* the names of declared. The call runs to its return or to its panic, with
\* everything it did on the program in last.
RenderCall(frag, compiles, declared) ==
    /\ pc = "idle"
    /\ last' = render_with_material(frag, compiles, declared)
    /\ pc' = last'.result
    /\ UNCHANGED <<vdata, vresult, debug_assertions, vertex_buffers, index_buffer,
                   instance_buffers, instance_count, transformation, arg, snapshot,
                   colors_before>>

\* ------------------------------------------------------- specifications
\* validate() as a pure function: any ParticleData within MaxLen, then the call.
InitValidate ==
    /\ vdata \in ParticleDatas(MaxLen)
    /\ vresult = NoneOf
    /\ debug_assertions = FALSE
    /\ vertex_buffers = EmptyMap
    /\ index_buffer = NoneOf
    /\ instance_buffers = EmptyMap
    /\ instance_count = 0
    /\ transformation = "invertible"
    /\ pc = "no particles"
    /\ arg = NoneOf
    /\ snapshot = NoneOf
    /\ colors_before = FALSE
    /\ last = NoCall

ValidateCall ==
    /\ vresult = NoneOf
    /\ vresult' = Some(validate(vdata))
    /\ UNCHANGED <<vdata, debug_assertions, vertex_buffers, index_buffer, instance_buffers,
                   instance_count, transformation, pc, arg, snapshot, colors_before, last>>

NextValidate == ValidateCall

SpecValidate == InitValidate /\ [][NextValidate]_vars

\* Every ParticleData of at most MaxInstances elements per buffer.
AllDatas == ParticleDatas(MaxInstances)

\* The ParticleData the doc comment of the struct asks for: every list holds
\* one element per particle.
WellFormed(data) ==
    /\ Len(data.start_velocities) = Len(data.start_positions)
    /\ IsSome(data.texture_transforms)
        => Len(Unwrap(data.texture_transforms)) = Len(data.start_positions)
    /\ IsSome(data.colors) => Len(Unwrap(data.colors)) = Len(data.start_positions)

WellFormedDatas == {data \in AllDatas : WellFormed(data)}

\* Particles::new on a base mesh with the channels of one of ChannelSets and
\* data of D, in the builds of Builds (TRUE: with debug assertions).
InitParticles(ChannelSets, D, Builds) ==
    /\ vdata = ParticleDataOf(<< >>, << >>, NoneOf, NoneOf)
    /\ vresult = NoneOf
    /\ \E channels \in ChannelSets, indexed \in BOOLEAN,
          data \in D, debug \in Builds :
        NewStruct(channels, indexed, data, debug)

\* The life of a Particles under new/update/set_transformation with any data,
\* on a mesh with no optional channel or with all of them (update() never reads
\* the vertex buffers).
Init == InitParticles({{}, OptionalChannels}, AllDatas, BOOLEAN)

UpdateCall == \E data \in AllDatas : UpdateBegin(data)

Next ==
    \/ UpdateCall
    \/ UpdateSteps
    \/ SetTransformation
    \/ Return

Spec == Init /\ [][Next]_vars

\* The same with render calls, for particle data of the documented shape, which
\* validate() accepts: the two builds then behave alike, and the release build
\* stands for both. render_with_material reads the names of the buffers and
\* instance_count, never the buffers' lengths.
InitRender == InitParticles(SUBSET OptionalChannels, WellFormedDatas, {FALSE})

UpdateCallWellFormed == \E data \in WellFormedDatas : UpdateBegin(data)

\* The programs of a particle vertex stage: render_with_material binds
\* acceleration and time unconditionally, so the stage evaluates the motion of
\* the particles and reads position, start_position and start_velocity. They
\* declare these three and at most one more of the names.
KinematicAttributes == {"position", "start_position", "start_velocity"}
ParticleProgramDeclarations ==
    {KinematicAttributes} \cup {KinematicAttributes \cup {n} : n \in ProgramNames}

\* A render call with any fragment source, compiled (if the composition has
\* not panicked) to a program of ParticleProgramDeclarations or not at all.
Render ==
    /\ pc = "idle"
    /\ \E frag \in FragmentSources :
         IF vertex_shader_source(frag, vertex_buffers, instance_buffers).panic
         THEN RenderCall(frag, FALSE, {})
         ELSE \/ RenderCall(frag, FALSE, {})
              \/ \E declared \in ParticleProgramDeclarations :
                     RenderCall(frag, TRUE, declared)

NextRender ==
    \/ UpdateCallWellFormed
    \/ UpdateSteps
    \/ SetTransformation
    \/ Render
    \/ Return

SpecRender == InitRender /\ [][NextRender]_vars

\* The fragment sources with no declaration and with all of them: the binding
\* loops read the program and the buffers, never the sources.
BindFragmentSources == {{}, Signals}

\* A render call compiled to any program of ProgramDeclarations or not at all.
RenderBind ==
    /\ pc = "idle"
    /\ \E frag \in BindFragmentSources :
         \/ RenderCall(frag, FALSE, {})
         \/ \E declared \in ProgramDeclarations : RenderCall(frag, TRUE, declared)

NextBind ==
    \/ UpdateCallWellFormed
    \/ UpdateSteps
    \/ SetTransformation
    \/ RenderBind
    \/ Return

SpecBind == InitRender /\ [][NextBind]_vars

\* =============================================================== claims

\* ------------------------------------------------------------------- C1
ShortOptional(b, n) == IsSome(b) /\ Len(Unwrap(b)) < n

\* C1: when an optional buffer (texture_transforms, colors) is present and
\* shorter than start_positions, validate() returns InvalidBufferLength naming
\* the first such buffer in check order (texture transforms before colors),
\* with expected = the length of start_positions and actual = the length of
\* that buffer.
C1_ShortOptionalBufferReported ==
    IsSome(vresult) =>
        LET n == Len(vdata.start_positions)
            r == Unwrap(vresult)
            first == IF ShortOptional(vdata.texture_transforms, n)
                     THEN <<"texture transforms", Len(Unwrap(vdata.texture_transforms))>>
                     ELSE <<"colors", Len(Unwrap(vdata.colors))>>
        IN  (ShortOptional(vdata.texture_transforms, n) \/ ShortOptional(vdata.colors, n))
            => /\ ~r.ok
               /\ r.error = "InvalidBufferLength"
               /\ r.name = first[1]
               /\ r.expected = n
               /\ r.actual = first[2]

\* The scenario of the specification: three positions, three velocities, two
\* colors, and validate() has answered InvalidBufferLength("colors", 3, 2).
C1_Witness ==
    /\ IsSome(vresult)
    /\ Len(vdata.start_positions) = 3
    /\ Len(vdata.start_velocities) = 3
    /\ vdata.texture_transforms = NoneOf
    /\ IsSome(vdata.colors) /\ Len(Unwrap(vdata.colors)) = 2
    /\ Unwrap(vresult) = [ok |-> FALSE, error |-> "InvalidBufferLength",
                          name |-> "colors", expected |-> 3, actual |-> 2]

\* ------------------------------------------------------------------- C2
\* C2: validate() returns an InvalidBufferLength error for every ParticleData
\* whose start_velocities length differs from its start_positions length,
\* shorter or longer.
C2_VelocitiesMustEqualCount ==
    (IsSome(vresult) /\ Len(vdata.start_velocities) # Len(vdata.start_positions))
        => /\ ~Unwrap(vresult).ok
           /\ Unwrap(vresult).error = "InvalidBufferLength"

\* ------------------------------------------------------------------- C3
\* The states a caller or a render call can see: between calls, and when a call
\* has returned or has panicked and been caught (a panic inside new() leaves
\* no Particles to see).
Observable == pc \in {"idle", "returned", "panicked"}

NamesOf(data) ==
    {"start_position", "start_velocity"}
    \cup (IF IsSome(data.texture_transforms)
          THEN {"tex_transform_row1", "tex_transform_row2"} ELSE {})
    \cup (IF IsSome(data.colors) THEN {"instance_color"} ELSE {})

\* C3: after new(data0) and any sequence of update calls, the names of the
\* instance buffers held are those of the data of the last update that ran
\* (in new() or update()): start_position and start_velocity, the two texture
\* transform rows iff it has texture_transforms, instance_color iff it has
\* colors.
C3_NamesFromLastSnapshot ==
    Observable => /\ IsSome(snapshot)
                  /\ DOMAIN instance_buffers = NamesOf(Unwrap(snapshot))

\* An update without colors has returned after an update with colors, and no
\* instance_color buffer is held.
C3_Witness ==
    /\ pc = "returned"
    /\ last.op = "update"
    /\ colors_before
    /\ ~IsSome(Unwrap(snapshot).colors)
    /\ "instance_color" \notin DOMAIN instance_buffers

\* ------------------------------------------------------------------- C4
\* The instance buffers update() builds from one ParticleData.
BuiltFrom(data) ==
    [k \in NamesOf(data) |->
        CASE k = "start_position" -> data.start_positions
          [] k = "start_velocity" -> data.start_velocities
          [] k = "tex_transform_row1" -> [i \in 1..Len(Unwrap(data.texture_transforms)) |-> Elem]
          [] k = "tex_transform_row2" -> [i \in 1..Len(Unwrap(data.texture_transforms)) |-> Elem]
          [] k = "instance_color" -> Unwrap(data.colors)]

\* C4: in every state a caller or a render call can observe (after new()
\* returns, after each update() returns or aborts), instance_count and all
\* the instance buffers come from one and the same ParticleData: the count
\* is the length of its start_positions and the buffers are exactly those
\* built from it.
C4_UpdateIsAtomic ==
    Observable => /\ IsSome(snapshot)
                  /\ instance_count = Len(Unwrap(snapshot).start_positions)
                  /\ instance_buffers = BuiltFrom(Unwrap(snapshot))

\* An update() has aborted on invalid data in a debug build, and the caller
\* sees the Particles of the update before it, one particle with colors.
C4_Witness ==
    /\ pc = "panicked"
    /\ last.op = "update"
    /\ instance_count = 1
    /\ "instance_color" \in DOMAIN instance_buffers
    /\ instance_buffers = BuiltFrom(Unwrap(snapshot))

\* ------------------------------------------------- render calls, shared
\* A render_with_material call has just returned or panicked.
RenderEnded == pc \in {"returned", "panicked"} /\ last.op = "render"

\* The #define names of the vertex source the call composed.
Defines == Range(Unwrap(last.vertex_shader_source))

ColorDefineNames == {"USE_COLORS", "USE_VERTEX_COLORS", "USE_INSTANCE_COLORS"}

\* The buffer under an attribute name of either candidate list.
Held(a) ==
    IF a \in Range(VertexAttributes)
    THEN a \in DOMAIN vertex_buffers
    ELSE a \in DOMAIN instance_buffers

\* The callback has run on a compiled program and has come to the two binding
\* loops (the normal matrix could be computed).
ReachedBinding ==
    RenderEnded /\ last.program = "compiled" /\ transformation = "invertible"

MissingAttribute == last.panic \in {"missing vertex buffer", "missing instance buffer"}

\* ------------------------------------------------------------------- C5
\* C5: in a composed vertex source, no color define is present when the
\* fragment source lacks `in vec4 col;`; when it has it, USE_COLORS comes
\* with exactly one variant: vertex and instance colors if both the color
\* vertex buffer and the instance_color instance buffer exist, instance
\* colors alone if only instance_color exists, vertex colors alone
\* otherwise (also when neither exists).
C5_ColorVariant ==
    (RenderEnded /\ IsSome(last.vertex_shader_source)) =>
        LET col == "in vec4 col;" \in last.fragment_shader_source
            v == "color" \in DOMAIN vertex_buffers
            i == "instance_color" \in DOMAIN instance_buffers
            found == Defines \cap ColorDefineNames
        IN  /\ ~col => found = {}
            /\ (col /\ v /\ i)
                => found = {"USE_COLORS", "USE_VERTEX_COLORS", "USE_INSTANCE_COLORS"}
            /\ (col /\ ~v /\ i) => found = {"USE_COLORS", "USE_INSTANCE_COLORS"}
            /\ (col /\ ~i) => found = {"USE_COLORS", "USE_VERTEX_COLORS"}

\* The color signal with neither a color vertex buffer nor an instance_color
\* buffer: the vertex color variant has been composed.
C5_Witness ==
    /\ RenderEnded
    /\ IsSome(last.vertex_shader_source)
    /\ "in vec4 col;" \in last.fragment_shader_source
    /\ "color" \notin DOMAIN vertex_buffers
    /\ "instance_color" \notin DOMAIN instance_buffers
    /\ Defines \cap ColorDefineNames = {"USE_COLORS", "USE_VERTEX_COLORS"}

\* ------------------------------------------------------------------- C6
\* A fragment source with the position and uv declarations and none of the
\* normal, tangent and color declarations has been rendered.
PositionsAndUvsOnly ==
    /\ RenderEnded
    /\ {"in vec3 pos;", "in vec2 uvs;"} \subseteq last.fragment_shader_source
    /\ last.fragment_shader_source
         \cap {"in vec3 nor;", "in vec3 tang;", "in vec4 col;"} = {}

\* C6 as stated: for such a fragment source and every state of the buffers
\* the composed features are exactly positions and uvs.
C6_ExactlyPositionsAndUvs ==
    PositionsAndUvsOnly =>
        /\ IsSome(last.vertex_shader_source)
        /\ Defines \ {"PARTICLES"} = {"USE_POSITIONS", "USE_UVS"}

\* C6 as amended: the composed features are positions and uvs, plus the
\* instance texture transformation exactly when a tex_transform_row1
\* instance buffer is held; no color and no tangent define is present.
C6_PositionsUvsAndHeldTextureTransform ==
    PositionsAndUvsOnly =>
        /\ IsSome(last.vertex_shader_source)
        /\ Defines \ {"PARTICLES"} =
             {"USE_POSITIONS", "USE_UVS"}
             \cup (IF "tex_transform_row1" \in DOMAIN instance_buffers
                   THEN {"USE_INSTANCE_TEXTURE_TRANSFORMATION"} ELSE {})

\* Such a source rendered on particles updated with texture transforms: the
\* instance texture transformation define is in the composed source.
C6_Witness ==
    /\ PositionsAndUvsOnly
    /\ IsSome(Unwrap(snapshot).texture_transforms)
    /\ "USE_INSTANCE_TEXTURE_TRANSFORMATION" \in Defines

\* ------------------------------------------------------------------- C7
\* C7: a render call that returns has issued exactly one draw call: an indexed
\* instanced draw over the index buffer if there is one, else a non-indexed
\* instanced draw over the vertex count of the position buffer; either with
\* instance_count instances, the count of the last update's data.
C7_OneDrawPerRender ==
    (RenderEnded /\ last.result = "returned") =>
        /\ Len(last.draws) = 1
        /\ instance_count = Len(Unwrap(snapshot).start_positions)
        /\ last.draws[1] =
             IF IsSome(index_buffer)
             THEN [call |-> "draw_elements_instanced", count |-> Unwrap(index_buffer),
                   instances |-> instance_count]
             ELSE [call |-> "draw_arrays_instanced", count |-> vertex_buffers["position"],
                   instances |-> instance_count]

\* A render of one particle on a mesh without index buffer has returned, after
\* an update that changed the particle count.
C7_Witness ==
    /\ RenderEnded
    /\ last.result = "returned"
    /\ ~IsSome(index_buffer)
    /\ instance_count = 1
    /\ last.draws = <<[call |-> "draw_arrays_instanced", count |-> MeshVertices,
                       instances |-> 1]>>

\* ------------------------------------------------------------------- C8
\* A render call with the color signal has ended on particles whose last
\* update had no colors and whose update before had colors.
ColorsDroppedThenColorRender ==
    /\ RenderEnded
    /\ colors_before
    /\ ~IsSome(Unwrap(snapshot).colors)
    /\ "in vec4 col;" \in last.fragment_shader_source

BindingOrder == VertexAttributes \o InstanceAttributes

Bound == last.vertex_attributes \cup last.instance_attributes

RequiredAndMissing(i) ==
    BindingOrder[i] \in last.declared /\ ~Held(BindingOrder[i])

C10_TangentNeedsBitangent ==
    RenderEnded =>
        LET tang == "in vec3 tang;" \in last.fragment_shader_source
            bitang == "in vec3 bitang;" \in last.fragment_shader_source
        IN  /\ (tang /\ ~bitang)
                => /\ last.result = "panicked"
                   /\ last.panic = "tangent without bitangent"
                   /\ last.vertex_shader_source = NoneOf
                   /\ last.program = "not requested"
                   /\ last.uniforms = {}
                   /\ last.vertex_attributes = {} /\ last.instance_attributes = {}
                   /\ last.draws = << >>
            /\ (tang /\ bitang)
                => /\ last.panic # "tangent without bitangent"
                   /\ IsSome(last.vertex_shader_source)
                   /\ "USE_TANGENTS" \in Defines

\* A render with the tangent declaration alone has panicked in the composition.
C10_Witness ==
    /\ RenderEnded
    /\ "in vec3 tang;" \in last.fragment_shader_source
    /\ "in vec3 bitang;" \notin last.fragment_shader_source
    /\ last.panic = "tangent without bitangent"

\* ------------------------------------------------------------------ C11
\* The aborts of a render call the claim lists.
DrawTimeErrors ==
    {"tangent without bitangent", "missing vertex buffer", "missing instance buffer",
     "Failed compiling shader"}

\* C11: whenever a render call aborts on a tangent contract violation, a
\* missing required vertex or instance buffer or a failed compilation, no
\* uniform and no vertex or instance attribute of that call has been bound on
\* the program at the moment of the abort, and no draw has been issued.
C11_AbortLeavesNothingBound ==
    (RenderEnded /\ last.result = "panicked" /\ last.panic \in DrawTimeErrors) =>
        /\ last.uniforms = {}
        /\ last.vertex_attributes = {}
        /\ last.instance_attributes = {}
        /\ last.draws = << >>

====
